---------------------------- MODULE Spec2Model ----------------------------
(***************************************************************************)
(* MySQL clone recovery tool (src/mysql-clone-tool.py): one run of main,   *)
(* from the pre-flight checks through execute_clone, the reconnect and     *)
(* polling loops of _monitor_clone_progress, validate_clone and cleanup.   *)
(*                                                                         *)
(* The program is one thread.  Every action is one step of it; what the    *)
(* two servers, the SSH host and the operator do is chosen by \E inside    *)
(* the step that observes it.                                              *)
(*                                                                         *)
(* MySQLClient (src/lib/mysql-operations-lib.py) is a library the tool     *)
(* does not call: its calls are the steps of a specification of their own, *)
(* LibSpec.                                                                *)
(***************************************************************************)
EXTENDS Integers, Sequences, FiniteSets

(***************************************************************************)
(* Bounds of the model and constants of the program.                       *)
(***************************************************************************)
\* other sessions in the target's PROCESSLIST
MaxSessions == 2
\* rows returned by one read of performance_schema.clone_progress
MaxRows == 2
\* max_retries of the reconnect loop
max_retries == 30
\* the largest row count cursor.execute returns to execute_write
MaxAffected == 2

\* values WORK_ESTIMATED and WORK_COMPLETED take in a row
EstimatedValues == {0, 50}
CompletedValues == {0, 29, 60}

None == "None"

VARIABLES
    pc,                 \* the statement main is at
    force,              \* args.force
    source_conn,        \* recovery.source_conn
    target_conn,        \* recovery.target_conn
    ssh_client,         \* recovery.ssh_client
    monitoring_conn,    \* monitoring_conn of _monitor_clone_progress
    new_conn,           \* new_conn of validate_clone
    source_plugin,      \* PLUGIN_STATUS row check_plugin_status read on source
    target_plugin,      \* PLUGIN_STATUS row check_plugin_status read on target
    active_connections, \* rows check_active_connections fetched
    processlist,        \* the PROCESSLIST the query of check_active_connections
                        \* has just read; {} at every other statement
    issued,             \* what was sent to the target host, in order
    clone_valid_donor_list, \* the target's global clone_valid_donor_list
    raised,             \* the exception the last step raised
    clone_exc,          \* what cursor.execute(clone_stmt) raised
    retries,            \* retries of the reconnect loop
    attempts,           \* pymysql.connect calls made by the reconnect loop
    wait_n,             \* pbar.n of the "Waiting for target" bar
    pbar_n,             \* pbar.n of the "Clone Progress" bar
    completed,          \* completed of the polling loop
    error_reported,     \* error_reported of the polling loop
    progress_rows,      \* len(progress_data) of the last read
    total_work,         \* total_work of the last cycle that had rows
    completed_work,     \* completed_work of the last cycle that had rows
    status,             \* status: the clone_status row last read
    diagnostics,        \* failure messages the polling loop and validate_clone printed
    monitor_end,        \* how _monitor_clone_progress returned
    execute_clone_ret,  \* what execute_clone returned: "True", "False"
    validate_ret,       \* what validate_clone returned: "True", "False"
    abort,              \* the "Aborting:" message main printed
    exit_code,          \* the process exit status, -1 while main runs
    client_pc,          \* MySQLClient: the statement the current call is at
    conn,               \* MySQLClient: self.conn
    helper,             \* MySQLClient: the method called
    todo,               \* MySQLClient: the statements the method has still to pass on
    trace,              \* MySQLClient: what the call did on the connection
    affected_rows,      \* MySQLClient: affected_rows of execute_write
    write_ret,          \* MySQLClient: what execute_write last returned, -1 before
    helper_ret          \* MySQLClient: what the method returned

conns    == <<source_conn, target_conn, ssh_client, monitoring_conn, new_conn>>
preflight == <<source_plugin, target_plugin, active_connections>>
reconn   == <<retries, attempts, wait_n>>
polling  == <<pbar_n, completed, error_reported, progress_rows, total_work,
              completed_work, status>>
results  == <<monitor_end, execute_clone_ret, validate_ret, abort, exit_code>>
tool     == <<pc, force, conns, preflight, processlist, issued,
              clone_valid_donor_list, raised,
              clone_exc, reconn, polling, diagnostics, results>>
client   == <<client_pc, conn, helper, todo, trace, affected_rows, write_ret,
              helper_ret>>
vars     == <<tool, client>>

(***************************************************************************)
(* Exception classes the handlers of the program tell apart.               *)
(***************************************************************************)
LostConnection   == "OperationalError: Lost connection"
OperationalOther == "OperationalError"
MySQLErrorOther  == "MySQLError"
OtherException   == "Exception"
Interrupt        == "KeyboardInterrupt"

\* isinstance(e, pymysql.MySQLError)
IsMySQLError(e) == e \in {LostConnection, OperationalOther, MySQLErrorOther}

\* isinstance(e, pymysql.err.OperationalError)
IsOperationalError(e) == e \in {LostConnection, OperationalOther}

\* variant of HasLostConnection: a substring the message never holds
HasLostConnectionNever(e) == FALSE

\* "Lost connection" in str(e)
HasLostConnection(e) == e = LostConnection

\* what a statement on a connection raises besides pymysql errors
StatementErrors == {OperationalOther, MySQLErrorOther, OtherException}

(***************************************************************************)
(* A row of performance_schema.clone_status, or no row (fetchone() is      *)
(* None); state is STATE, error_no is ERROR_NO, 1 for any nonzero code.   *)
(***************************************************************************)
NoStatus == [present |-> FALSE, state |-> None, error_no |-> 0]

StatusRows ==
    {NoStatus} \cup
    [present : {TRUE}, state : {"In Progress", "Completed", "Failed"},
     error_no : {0, 1}]

Init ==
    /\ pc = "connect_to_source"
    /\ force \in BOOLEAN
    /\ source_conn = None
    /\ target_conn = None
    /\ ssh_client = None
    /\ monitoring_conn = None
    /\ new_conn = None
    /\ source_plugin = "unread"
    /\ target_plugin = "unread"
    /\ active_connections = {}
    /\ processlist = {}
    /\ issued = <<>>
    /\ clone_valid_donor_list = "prior_host:prior_port"
    /\ raised = None
    /\ clone_exc = "unissued"
    /\ retries = 0
    /\ attempts = 0
    /\ wait_n = 0
    /\ pbar_n = 0
    /\ completed = FALSE
    /\ error_reported = FALSE
    /\ progress_rows = 0
    /\ total_work = 0
    /\ completed_work = 0
    /\ diagnostics = <<>>
    /\ status = NoStatus
    /\ monitor_end = None
    /\ execute_clone_ret = None
    /\ validate_ret = None
    /\ abort = None
    /\ exit_code = -1
    /\ client_pc = "idle"
    /\ conn = None
    /\ helper = None
    /\ todo = <<>>
    /\ trace = <<>>
    /\ affected_rows = 0
    /\ write_ret = -1
    /\ helper_ret = None

(***************************************************************************)
(* main's ways out of the try block.  Each ends in the finally clause,     *)
(* recovery.cleanup(), with the exit status decided.                       *)
(***************************************************************************)
\* variant of Abort: the message without the sys.exit(1), main goes on
AbortWithoutExit(reason) ==
    /\ pc' = CASE pc = "connect_to_source" -> "connect_to_target"
              [] pc = "connect_to_target" -> "check_plugin_source"
              [] pc = "check_plugin_source" -> "check_plugin_target"
              [] pc = "check_plugin_target" -> "check_active_connections"
              [] OTHER -> "execute_clone_datadir"
    /\ abort' = reason
    /\ UNCHANGED <<monitor_end, execute_clone_ret, validate_ret, exit_code>>

\* print("Aborting: ..."); sys.exit(1)
Abort(reason) ==
    /\ pc' = "cleanup"
    /\ abort' = reason
    /\ exit_code' = 1
    /\ UNCHANGED <<monitor_end, execute_clone_ret, validate_ret>>

\* variant of MainExcept: the handler prints and main ends normally
MainExceptExitZero ==
    /\ pc' = "cleanup"
    /\ exit_code' = 0
    /\ UNCHANGED <<monitor_end, execute_clone_ret, validate_ret, abort>>

\* except KeyboardInterrupt / except Exception: sys.exit(1)
MainExcept ==
    /\ pc' = "cleanup"
    /\ exit_code' = 1
    /\ UNCHANGED <<monitor_end, execute_clone_ret, validate_ret, abort>>

\* execute_clone returned False: print("Clone operation failed"); sys.exit(1)
ExecuteCloneFalse ==
    /\ pc' = "cleanup"
    /\ execute_clone_ret' = "False"
    /\ exit_code' = 1
    /\ UNCHANGED <<monitor_end, validate_ret, abort>>

(***************************************************************************)
(* Pre-flight checks.                                                      *)
(***************************************************************************)
connect_to_source ==
    /\ pc = "connect_to_source"
    /\ \E e \in {None, MySQLErrorOther, OtherException} :
         /\ raised' = e
         /\ IF e = None
            THEN /\ source_conn' = "open"
                 /\ pc' = "connect_to_target"
                 /\ UNCHANGED results
            ELSE /\ UNCHANGED source_conn
                 /\ IF IsMySQLError(e) THEN Abort("source_connect") ELSE MainExcept
    /\ UNCHANGED <<force, target_conn, ssh_client, monitoring_conn, new_conn,
                   preflight, issued, clone_exc, reconn, polling, diagnostics>>
    /\ processlist' = {}
    /\ UNCHANGED <<clone_valid_donor_list, client>>

connect_to_target ==
    /\ pc = "connect_to_target"
    /\ \E e \in {None, MySQLErrorOther, OtherException} :
         /\ raised' = e
         /\ IF e = None
            THEN /\ target_conn' = "open"
                 /\ pc' = "check_plugin_source"
                 /\ UNCHANGED results
            ELSE /\ UNCHANGED target_conn
                 /\ IF IsMySQLError(e) THEN Abort("target_connect") ELSE MainExcept
    /\ UNCHANGED <<force, source_conn, ssh_client, monitoring_conn, new_conn,
                   preflight, issued, clone_exc, reconn, polling, diagnostics>>
    /\ processlist' = {}
    /\ UNCHANGED <<clone_valid_donor_list, client>>

\* the row of INFORMATION_SCHEMA.PLUGINS for 'clone': None when not installed
PluginRows == {None, "ACTIVE", "DISABLED"}

\* variant of check_plugin_status: force lets a missing or inactive plugin pass
check_plugin_status_or_force(result) == result = "ACTIVE" \/ force

check_plugin_status(result) ==
    IF result = None THEN FALSE
    ELSE IF result # "ACTIVE" THEN FALSE
    ELSE TRUE

check_plugin_source ==
    /\ pc = "check_plugin_source"
    /\ \/ \E result \in PluginRows :
            /\ source_plugin' = result
            /\ raised' = None
            /\ IF check_plugin_status(result)
               THEN pc' = "check_plugin_target" /\ UNCHANGED results
               ELSE Abort("source_plugin")
       \/ \E e \in StatementErrors :
            /\ raised' = e
            /\ UNCHANGED source_plugin
            /\ MainExcept
    /\ UNCHANGED <<force, conns, target_plugin, active_connections, issued,
                   clone_exc, reconn, polling, diagnostics>>
    /\ processlist' = {}
    /\ UNCHANGED <<clone_valid_donor_list, client>>

check_plugin_target ==
    /\ pc = "check_plugin_target"
    /\ issued' = Append(issued, "SELECT PLUGINS")
    /\ \/ \E result \in PluginRows :
            /\ target_plugin' = result
            /\ raised' = None
            /\ IF check_plugin_status(result)
               THEN pc' = "check_active_connections" /\ UNCHANGED results
               ELSE Abort("target_plugin")
       \/ \E e \in StatementErrors :
            /\ raised' = e
            /\ UNCHANGED target_plugin
            /\ MainExcept
    /\ UNCHANGED <<force, conns, source_plugin, active_connections,
                   clone_exc, reconn, polling, diagnostics>>
    /\ processlist' = {}
    /\ UNCHANGED <<clone_valid_donor_list, client>>

(***************************************************************************)
(* The target's PROCESSLIST: the orchestrator's own session and up to      *)
(* MaxSessions others, each with a COMMAND and a USER.                     *)
(***************************************************************************)
Commands == {"Daemon", "Sleep", "Query"}
Users    == {"target_user", "other_user"}
Sessions == [ID : 1..MaxSessions, USER : Users, COMMAND : Commands, own : {FALSE}]
            \cup {[ID |-> 0, USER |-> "target_user", COMMAND |-> "Query", own |-> TRUE]}

\* WHERE COMMAND not in ('Daemon','Sleep') AND USER != %s AND ID != CONNECTION_ID()
ProcesslistFilter(s) ==
    /\ s.COMMAND \notin {"Daemon", "Sleep"}
    /\ s.USER # "target_user"
    /\ ~s.own

\* a PROCESSLIST: the own session and at most one row per ID
Processlists ==
    {p \in SUBSET Sessions :
        /\ \E s \in p : s.own
        /\ \A s, t \in p : s.ID = t.ID => s = t}

\* variant of ActiveConnectionsAbort: args.force not looked at
ActiveConnectionsAbortAlways(rows) == rows # {}

\* main: "if not recovery.check_active_connections() and not args.force"
ActiveConnectionsAbort(rows) == rows # {} /\ ~force

check_active_connections ==
    /\ pc = "check_active_connections"
    /\ issued' = Append(issued, "SELECT PROCESSLIST")
    /\ \/ \E p \in Processlists :
            /\ processlist' = p
            /\ active_connections' = {s \in p : ProcesslistFilter(s)}
            /\ raised' = None
            /\ IF ActiveConnectionsAbort(active_connections')
               THEN Abort("active_connections")
               ELSE pc' = "execute_clone_datadir" /\ UNCHANGED results
       \/ \E e \in StatementErrors :
            /\ raised' = e
            /\ processlist' = {}
            /\ UNCHANGED active_connections
            /\ MainExcept
    /\ UNCHANGED <<force, conns, source_plugin, target_plugin,
                   clone_exc, reconn, polling, diagnostics>>
    /\ UNCHANGED <<clone_valid_donor_list, client>>

(***************************************************************************)
(* execute_clone.  A pymysql.MySQLError in it returns False; any other     *)
(* Exception leaves it and reaches main's handler.                         *)
(***************************************************************************)
\* variant of ExecuteCloneExcept: a lost connection is taken as the expected
\* disconnect wherever it is raised, and execute_clone goes on
ExecuteCloneExceptLostTolerated(e) ==
    IF HasLostConnection(e) THEN pc' = "ssh_connect" /\ UNCHANGED results
    ELSE IF IsMySQLError(e) THEN ExecuteCloneFalse ELSE MainExcept

\* except pymysql.MySQLError as err: return False   (else: propagates to main)
ExecuteCloneExcept(e) ==
    IF IsMySQLError(e) THEN ExecuteCloneFalse ELSE MainExcept

execute_clone_datadir ==
    /\ pc = "execute_clone_datadir"
    /\ issued' = Append(issued, "SELECT datadir")
    /\ \E e \in {None} \cup StatementErrors \cup {LostConnection} :
         /\ raised' = e
         /\ IF e = None
            THEN pc' = "execute_clone_donor" /\ UNCHANGED results
            ELSE ExecuteCloneExcept(e)
    /\ UNCHANGED <<force, conns, preflight, clone_exc, reconn, polling, diagnostics>>
    /\ processlist' = {}
    /\ UNCHANGED <<clone_valid_donor_list, client>>

\* f"{self.source_host}:{self.source_port}"
SourceEndpoint == "source_host:source_port"

\* variant of SetDonorList: the statement leaves the list as it was
SetDonorListKeep(prior) == prior

\* SET GLOBAL clone_valid_donor_list = '<source_host>:<source_port>'
SetDonorList(prior) == SourceEndpoint

execute_clone_donor ==
    /\ pc = "execute_clone_donor"
    /\ issued' = Append(issued, "SET clone_valid_donor_list")
    /\ \E e \in {None} \cup StatementErrors \cup {LostConnection} :
         /\ raised' = e
         /\ IF e = None
            THEN /\ clone_valid_donor_list' = SetDonorList(clone_valid_donor_list)
                 /\ pc' = "ssh_connect"
                 /\ UNCHANGED results
            ELSE /\ UNCHANGED clone_valid_donor_list
                 /\ ExecuteCloneExcept(e)
    /\ UNCHANGED <<force, conns, preflight, clone_exc, reconn, polling, diagnostics>>
    /\ processlist' = {}
    /\ UNCHANGED client

\* ssh_connect returns False on any Exception; self.ssh_client is already set
ssh_connect ==
    /\ pc = "ssh_connect"
    /\ \E e \in {None, OtherException} :
         /\ raised' = e
         /\ IF e = None
            THEN /\ ssh_client' = "open"
                 /\ pc' = "exec_command"
                 /\ UNCHANGED results
            ELSE /\ ssh_client' = "unconnected"
                 \* else: print("Cannot establish SSH connection"); return False
                 /\ ExecuteCloneFalse
    /\ UNCHANGED <<force, source_conn, target_conn, monitoring_conn, new_conn,
                   preflight, issued, clone_exc, reconn, polling, diagnostics>>
    /\ processlist' = {}
    /\ UNCHANGED <<clone_valid_donor_list, client>>

\* self.ssh_client.exec_command("nohup watch ... &")
exec_command ==
    /\ pc = "exec_command"
    /\ issued' = Append(issued, "watcher")
    /\ \E e \in {None, OtherException} :
         /\ raised' = e
         /\ IF e = None
            THEN pc' = "clone_stmt" /\ UNCHANGED results
            ELSE ExecuteCloneExcept(e)
    /\ UNCHANGED <<force, conns, preflight, clone_exc, reconn, polling, diagnostics>>
    /\ processlist' = {}
    /\ UNCHANGED <<clone_valid_donor_list, client>>

\* variant of CloneStmtSwallowed: every OperationalError taken as the disconnect
CloneStmtSwallowedAnyOperational(e) == IsOperationalError(e)

\* except pymysql.err.OperationalError as e:
\*     if "Lost connection" in str(e): (go on)  else: raise e
CloneStmtSwallowed(e) == IsOperationalError(e) /\ HasLostConnection(e)

\* cursor.execute(clone_stmt) and its handler
clone_stmt ==
    /\ pc = "clone_stmt"
    /\ issued' = Append(issued, "CLONE INSTANCE")
    /\ \E e \in {None, LostConnection} \cup StatementErrors :
         /\ raised' = e
         /\ clone_exc' = e
         /\ IF e = None \/ CloneStmtSwallowed(e)
            THEN pc' = "monitor_sleep" /\ UNCHANGED results
            ELSE ExecuteCloneExcept(e)
    /\ UNCHANGED <<force, conns, preflight, reconn, polling, diagnostics>>
    /\ processlist' = {}
    /\ UNCHANGED <<clone_valid_donor_list, client>>

(***************************************************************************)
(* _monitor_clone_progress.  Its locals live in its frame: the model holds *)
(* them from the statement that sets them to the one after which the code  *)
(* reads them no more (the end of the reconnect loop for retries and the   *)
(* first bar, the return or the unwinding of the frame for the rest), and  *)
(* puts them back to their initial values there.                           *)
(***************************************************************************)
\* retries and the "Waiting for target" bar after pbar.close()
DropReconnectLocals ==
    /\ retries' = 0
    /\ attempts' = 0
    /\ wait_n' = 0

\* the frame of _monitor_clone_progress, or of validate_clone, is gone
DropFrameLocals ==
    /\ pbar_n' = 0
    /\ completed' = FALSE
    /\ error_reported' = FALSE
    /\ progress_rows' = 0
    /\ total_work' = 0
    /\ completed_work' = 0
    /\ status' = NoStatus

\* _monitor_clone_progress returned; execute_clone goes on to "return True"
ExecuteCloneTrue(how) ==
    /\ monitor_end' = how
    /\ execute_clone_ret' = "True"
    /\ pc' = "validate_connect"
    /\ UNCHANGED <<validate_ret, abort, exit_code>>

\* variant of ReconnectLoopTest: "while retries <= max_retries"
ReconnectLoopTestInclusive(r) == r <= max_retries

\* "while retries < max_retries"
ReconnectLoopTest(r) == r < max_retries

\* time.sleep(5); monitoring_conn = None; retries = 0; max_retries = 30
monitor_sleep ==
    /\ pc = "monitor_sleep"
    /\ raised' = None
    /\ monitoring_conn' = None
    /\ retries' = 0
    /\ attempts' = 0
    /\ wait_n' = 0
    /\ pc' = IF ReconnectLoopTest(retries') THEN "reconnect" ELSE "reconnect_end"
    /\ UNCHANGED <<force, source_conn, target_conn, ssh_client, new_conn,
                   preflight, issued, clone_exc, polling, diagnostics, results>>
    /\ processlist' = {}
    /\ UNCHANGED <<clone_valid_donor_list, client>>

\* tqdm's update(n): self.n += n
pbar_update(n, delta) == n + delta

\* what the bare "except:" of the reconnect loop takes: everything
ReconnectSwallowed(e) == e # None

\* variant of Break: the loop goes round again after a successful connect
BreakMissing == "reconnect"

\* "break": to the statement after the loop
Break == "reconnect_end"

\* one pass of the loop body: pymysql.connect in a try; on success "break"
reconnect ==
    /\ pc = "reconnect"
    /\ attempts' = attempts + 1
    /\ \E e \in {None, OperationalOther, Interrupt} :
         /\ raised' = e
         /\ IF ReconnectSwallowed(e)
            THEN \* retries += 1; pbar.update(retries * 3)
                 /\ retries' = retries + 1
                 /\ wait_n' = pbar_update(wait_n, retries' * 3)
                 /\ pc' = "reconnect_sleep"
                 /\ UNCHANGED monitoring_conn
            ELSE /\ monitoring_conn' = "open"
                 /\ pc' = Break
                 /\ UNCHANGED <<retries, wait_n>>
    /\ UNCHANGED <<force, source_conn, target_conn, ssh_client, new_conn,
                   preflight, issued, clone_exc, polling, diagnostics, results>>
    /\ processlist' = {}
    /\ UNCHANGED <<clone_valid_donor_list, client>>

\* time.sleep(2) in the except clause, then the loop test
reconnect_sleep ==
    /\ pc = "reconnect_sleep"
    /\ raised' = None
    /\ pc' = IF ReconnectLoopTest(retries) THEN "reconnect" ELSE "reconnect_end"
    /\ UNCHANGED <<force, conns, preflight, issued, clone_exc, reconn, polling,
                   diagnostics, results>>
    /\ processlist' = {}
    /\ UNCHANGED <<clone_valid_donor_list, client>>

\* pbar.close(); "if not monitoring_conn: print(Could not reconnect); return";
\* else cursor = ...; completed = False; error_reported = False; the new bar
reconnect_end ==
    /\ pc = "reconnect_end"
    /\ raised' = None
    /\ DropReconnectLocals
    /\ IF monitoring_conn = None
       THEN /\ ExecuteCloneTrue("could_not_reconnect")
            /\ UNCHANGED <<completed, error_reported, pbar_n>>
       ELSE /\ completed' = FALSE
            /\ error_reported' = FALSE
            /\ pbar_n' = 0
            /\ pc' = "poll_progress"
            /\ UNCHANGED results
    /\ UNCHANGED <<force, conns, preflight, issued, clone_exc, progress_rows,
                   total_work, completed_work, status, diagnostics>>
    /\ processlist' = {}
    /\ UNCHANGED <<clone_valid_donor_list, client>>

(***************************************************************************)
(* _monitor_clone_progress: the polling loop.                              *)
(***************************************************************************)
Tasks == [WORK_ESTIMATED : EstimatedValues, WORK_COMPLETED : CompletedValues]

\* what cursor.fetchall() returns for clone_progress
ProgressData == UNION {[1..n -> Tasks] : n \in 0..MaxRows}

\* total_work += task.get('WORK_ESTIMATED', 0), over the rows
RECURSIVE SumEstimated(_)
SumEstimated(rows) ==
    IF rows = <<>> THEN 0
    ELSE Head(rows).WORK_ESTIMATED + SumEstimated(Tail(rows))

\* completed_work += task.get('WORK_COMPLETED', 0), over the rows
RECURSIVE SumCompleted(_)
SumCompleted(rows) ==
    IF rows = <<>> THEN 0
    ELSE Head(rows).WORK_COMPLETED + SumCompleted(Tail(rows))

Min(a, b) == IF a <= b THEN a ELSE b

\* The pairs (c, t), c <= t <= 200, for which the double (c / t) * 100 lies
\* just below the integer floor(100 * c / t), so that int() gives one less.
FloatBelow ==
    {<<29, 50>>, <<29, 100>>, <<57, 100>>, <<58, 100>>, <<87, 150>>,
     <<58, 200>>, <<114, 200>>, <<116, 200>>}

\* int((completed_work / total_work) * 100) in double arithmetic, t <= 200
\* (for c > t the double is at least 100, as this is)
IntRatio100(c, t) ==
    IF <<c, t>> \in FloatBelow THEN (100 * c) \div t - 1 ELSE (100 * c) \div t

\* variant of progress_percent: without the min
progress_percent_uncapped(c, t) == IntRatio100(c, t)

\* progress_percent = min(int((completed_work / total_work) * 100), 100)
progress_percent(c, t) == Min(IntRatio100(c, t), 100)

\* pbar.update(progress_percent - pbar.n)
ShowProgress(n, c, t) == pbar_update(n, progress_percent(c, t) - n)

\* variant of ShowCompleted: pbar.update(100)
ShowCompletedAdd100(n) == pbar_update(n, 100)

\* pbar.update(100 - pbar.n)
ShowCompleted(n) == pbar_update(n, 100 - n)

\* variant of MonitorExcept: no handler, the exception reaches main
MonitorExceptPropagates ==
    /\ MainExcept
    /\ DropFrameLocals

\* variant of MonitorExcept: the handler sends execute_clone back to the
\* clone directive
MonitorExceptRedispatch ==
    /\ monitor_end' = "error"
    /\ pc' = "clone_stmt"
    /\ UNCHANGED <<execute_clone_ret, validate_ret, abort, exit_code>>
    /\ DropFrameLocals

\* an Exception in the polling loop: "except Exception as e: print(...)"; the
\* function returns, monitoring_conn not closed
MonitorExcept ==
    /\ ExecuteCloneTrue("error")
    /\ DropFrameLocals

\* cursor.execute(clone_progress); fetchall(); the sums and the bar
poll_progress ==
    /\ pc = "poll_progress"
    /\ \/ \E progress_data \in ProgressData :
            /\ raised' = None
            /\ progress_rows' = Len(progress_data)
            /\ IF progress_data = <<>>
               THEN UNCHANGED <<total_work, completed_work, pbar_n>>
               ELSE /\ total_work' = SumEstimated(progress_data)
                    /\ completed_work' = SumCompleted(progress_data)
                    /\ IF total_work' > 0
                       THEN pbar_n' = ShowProgress(pbar_n, completed_work', total_work')
                       ELSE UNCHANGED pbar_n
            /\ pc' = "poll_status"
            /\ UNCHANGED <<completed, error_reported, status, results>>
       \/ \E e \in StatementErrors :
            /\ raised' = e
            /\ MonitorExcept
    /\ UNCHANGED <<force, conns, preflight, issued, clone_exc, reconn, diagnostics>>
    /\ processlist' = {}
    /\ UNCHANGED <<clone_valid_donor_list, client>>

\* variant of NoRowsCompleted: "if not status or status.get('ERROR_NO') == 0"
NoRowsCompletedOrAbsent(s) == ~s.present \/ s.error_no = 0

\* the no-rows branch: "if status and status.get('ERROR_NO') == 0"
NoRowsCompleted(s) == s.present /\ s.error_no = 0

\* the rows branch: "if status: if status.get('STATE') == 'Completed'"
RowsCompleted(s) == s.present /\ s.state = "Completed"

\* the rows branch: "elif status.get('STATE') == 'Failed'"
RowsFailed(s) == s.present /\ s.state = "Failed"

\* variant of NotYetReported: the flag not looked at
NotYetReportedAlways(reported) == TRUE

\* "not error_reported", the guard of both failure prints
NotYetReported(reported) == ~reported

\* "while not completed"
PollLoopTest(c) == ~c

\* cursor.execute(clone_status); fetchone(); the branch of the cycle;
\* time.sleep(2); the loop test
poll_status ==
    /\ pc = "poll_status"
    /\ \/ \E s \in StatusRows :
            /\ raised' = None
            /\ status' = s
            /\ IF progress_rows = 0
               THEN IF NoRowsCompleted(s)
                    THEN /\ pbar_n' = ShowCompleted(pbar_n)
                         /\ completed' = TRUE
                         /\ UNCHANGED <<error_reported, diagnostics>>
                    ELSE IF NotYetReported(error_reported)
                    THEN /\ diagnostics' = Append(diagnostics, "failed or no progress data")
                         /\ error_reported' = TRUE
                         /\ UNCHANGED <<pbar_n, completed>>
                    ELSE UNCHANGED <<pbar_n, completed, error_reported, diagnostics>>
               ELSE IF RowsCompleted(s)
                    THEN /\ pbar_n' = ShowCompleted(pbar_n)
                         /\ completed' = TRUE
                         /\ UNCHANGED <<error_reported, diagnostics>>
                    ELSE IF RowsFailed(s) /\ NotYetReported(error_reported)
                    THEN /\ diagnostics' = Append(diagnostics, "ERROR_MESSAGE")
                         /\ error_reported' = TRUE
                         /\ UNCHANGED <<pbar_n, completed>>
                    ELSE UNCHANGED <<pbar_n, completed, error_reported, diagnostics>>
            /\ pc' = IF PollLoopTest(completed') THEN "poll_progress" ELSE "monitor_close"
            /\ UNCHANGED <<progress_rows, total_work, completed_work, results>>
       \/ \E e \in StatementErrors :
            /\ raised' = e
            /\ UNCHANGED diagnostics
            /\ MonitorExcept
    /\ UNCHANGED <<force, conns, preflight, issued, clone_exc, reconn>>
    /\ processlist' = {}
    /\ UNCHANGED <<clone_valid_donor_list, client>>

\* pbar.close(); cursor.close(); monitoring_conn.close(); "if completed: print";
\* the function returns
monitor_close ==
    /\ pc = "monitor_close"
    /\ raised' = None
    /\ monitoring_conn' = "closed"
    /\ ExecuteCloneTrue(IF completed THEN "completed" ELSE "not_completed")
    /\ DropFrameLocals
    /\ UNCHANGED <<force, source_conn, target_conn, ssh_client, new_conn,
                   preflight, issued, clone_exc, reconn, diagnostics>>
    /\ processlist' = {}
    /\ UNCHANGED <<clone_valid_donor_list, client>>

(***************************************************************************)
(* validate_clone.  main ignores what it returns and falls off the end of  *)
(* the try block: exit status 0.                                           *)
(***************************************************************************)
\* validate_clone returned; main ends normally
ValidateReturn(ret) ==
    /\ validate_ret' = ret
    /\ pc' = "cleanup"
    /\ exit_code' = 0
    /\ UNCHANGED <<monitor_end, execute_clone_ret, abort>>

\* except pymysql.MySQLError as err: return False   (else: propagates to main)
ValidateExcept(e) ==
    IF IsMySQLError(e) THEN ValidateReturn("False") ELSE MainExcept

\* new_conn = pymysql.connect(...)
validate_connect ==
    /\ pc = "validate_connect"
    /\ \E e \in {None, OperationalOther, OtherException} :
         /\ raised' = e
         /\ IF e = None
            THEN /\ new_conn' = "open"
                 /\ pc' = "validate_status"
                 /\ UNCHANGED results
            ELSE /\ UNCHANGED new_conn
                 /\ ValidateExcept(e)
    /\ UNCHANGED <<force, source_conn, target_conn, ssh_client, monitoring_conn,
                   preflight, issued, clone_exc, reconn, polling, diagnostics>>
    /\ processlist' = {}
    /\ UNCHANGED <<clone_valid_donor_list, client>>

\* variant of ValidateOk: the error code not looked at
ValidateOkStateOnly(s) == s.present /\ s.state = "Completed"

\* f"Clone validation failed: {status.get('ERROR_MESSAGE') if status else 'Unknown error'}"
ValidationFailed(s) ==
    IF s.present THEN "validation failed: ERROR_MESSAGE"
    ELSE "validation failed: Unknown error"

\* if status and status.get('STATE') == 'Completed' and status.get('ERROR_NO') == 0
ValidateOk(s) == s.present /\ s.state = "Completed" /\ s.error_no = 0

\* cursor.execute(clone_status); fetchone(); the else branch prints the
\* failure, closes and returns False
validate_status ==
    /\ pc = "validate_status"
    /\ \/ \E s \in StatusRows :
            /\ raised' = None
            /\ status' = s
            /\ IF ValidateOk(s)
               THEN /\ pc' = "validate_info"
                    /\ UNCHANGED <<new_conn, diagnostics, results>>
               ELSE /\ diagnostics' = Append(diagnostics, ValidationFailed(s))
                    /\ new_conn' = "closed"
                    /\ ValidateReturn("False")
       \/ \E e \in StatementErrors :
            /\ raised' = e
            /\ UNCHANGED <<status, new_conn, diagnostics>>
            /\ ValidateExcept(e)
    /\ UNCHANGED <<force, source_conn, target_conn, ssh_client, monitoring_conn,
                   preflight, issued, clone_exc, reconn, pbar_n, completed,
                   error_reported, progress_rows, total_work, completed_work>>
    /\ processlist' = {}
    /\ UNCHANGED <<clone_valid_donor_list, client>>

\* SELECT @@version, @@server_id; print; close; return True
validate_info ==
    /\ pc = "validate_info"
    /\ \E e \in {None} \cup StatementErrors :
         /\ raised' = e
         /\ IF e = None
            THEN /\ new_conn' = "closed"
                 /\ ValidateReturn("True")
            ELSE /\ UNCHANGED new_conn
                 /\ ValidateExcept(e)
    /\ UNCHANGED <<force, source_conn, target_conn, ssh_client, monitoring_conn,
                   preflight, issued, clone_exc, reconn, polling, diagnostics>>
    /\ processlist' = {}
    /\ UNCHANGED <<clone_valid_donor_list, client>>

(***************************************************************************)
(* cleanup, in main's finally clause, and the operator's interrupt.        *)
(***************************************************************************)
\* "if self.x: self.x.close()" for source_conn, target_conn and ssh_client
Close(c) == IF c = None THEN c ELSE "closed"

cleanup ==
    /\ pc = "cleanup"
    /\ source_conn' = Close(source_conn)
    /\ target_conn' = Close(target_conn)
    /\ ssh_client' = Close(ssh_client)
    /\ pc' = "done"
    /\ UNCHANGED <<force, monitoring_conn, new_conn, preflight, issued, raised,
                   clone_exc, reconn, polling, diagnostics, results>>
    /\ processlist' = {}
    /\ UNCHANGED <<clone_valid_donor_list, client>>

\* where a KeyboardInterrupt reaches main's "except KeyboardInterrupt": every
\* statement of the try block but the pymysql.connect of the reconnect loop
Interruptible == pc \notin {"reconnect", "cleanup", "done"}

\* the frames between the statement and main are unwound
KeyboardInterrupt ==
    /\ Interruptible
    /\ raised' = Interrupt
    /\ MainExcept
    /\ DropReconnectLocals
    /\ DropFrameLocals
    /\ UNCHANGED <<force, conns, preflight, issued, clone_exc, diagnostics>>
    /\ processlist' = {}
    /\ UNCHANGED <<clone_valid_donor_list, client>>

Next ==
    \/ connect_to_source
    \/ connect_to_target
    \/ check_plugin_source
    \/ check_plugin_target
    \/ check_active_connections
    \/ execute_clone_datadir
    \/ execute_clone_donor
    \/ ssh_connect
    \/ exec_command
    \/ clone_stmt
    \/ monitor_sleep
    \/ reconnect
    \/ reconnect_sleep
    \/ reconnect_end
    \/ poll_progress
    \/ poll_status
    \/ monitor_close
    \/ validate_connect
    \/ validate_status
    \/ validate_info
    \/ cleanup
    \/ KeyboardInterrupt

Spec == Init /\ [][Next]_vars

\* the interpreter keeps running the one thread while it has a next statement
FairSpec == Spec /\ WF_vars(Next)

(***************************************************************************)
(* MySQLClient.  A caller holds one client and calls its methods one after *)
(* the other; the server decides what each statement does.                 *)
(***************************************************************************)
\* the methods documented "True if successful, False otherwise" that pass
\* their statements to execute_write
BoolHelpers ==
    {"kill_process", "create_database", "drop_database", "create_user",
     "setup_replication"}

Helpers == {"execute_write"} \cup BoolHelpers

\* the statements a method passes to execute_write, in order
Statements(h) ==
    CASE h = "execute_write"     -> <<"statement">>
      [] h = "kill_process"      -> <<"KILL">>
      [] h = "create_database"   -> <<"CREATE DATABASE">>
      [] h = "drop_database"     -> <<"DROP DATABASE">>
      [] h = "create_user"       -> <<"CREATE USER">>
      [] h = "setup_replication" -> <<"STOP SLAVE", "CHANGE MASTER", "START SLAVE">>

\* connect(): self.conn = pymysql.connect(...); False on pymysql.Error
client_connect ==
    /\ client_pc = "idle"
    /\ \E ok \in BOOLEAN : conn' = IF ok THEN "open" ELSE conn
    /\ UNCHANGED <<client_pc, helper, todo, trace, affected_rows, write_ret,
                   helper_ret>>
    /\ UNCHANGED tool

\* disconnect(): "if self.conn and self.conn.open: self.conn.close()"
client_disconnect ==
    /\ client_pc = "idle"
    /\ conn = "open"
    /\ conn' = "closed"
    /\ UNCHANGED <<client_pc, helper, todo, trace, affected_rows, write_ret,
                   helper_ret>>
    /\ UNCHANGED tool

\* the caller calls a method
client_call ==
    /\ client_pc = "idle"
    /\ \E h \in Helpers :
         /\ helper' = h
         /\ todo' = Statements(h)
    /\ trace' = <<>>
    /\ write_ret' = -1
    /\ helper_ret' = None
    /\ client_pc' = "execute_write"
    /\ UNCHANGED <<conn, affected_rows>>
    /\ UNCHANGED tool

\* execute_write returns r to the method, which goes on to its next
\* statement, or logs and returns True after the last
ExecuteWriteReturn(r) ==
    /\ write_ret' = r
    /\ affected_rows' = 0
    /\ todo' = Tail(todo)
    /\ IF Tail(todo) # <<>>
       THEN client_pc' = "execute_write" /\ UNCHANGED helper_ret
       ELSE /\ client_pc' = "idle"
            /\ helper_ret' = IF helper \in BoolHelpers THEN "True" ELSE None

\* a pymysql.Error leaves execute_write: the method's "except pymysql.Error"
\* returns False; a direct caller gets the exception
ExecuteWriteRaise ==
    /\ affected_rows' = 0
    /\ todo' = <<>>
    /\ client_pc' = "idle"
    /\ helper_ret' = IF helper \in BoolHelpers THEN "False" ELSE "raised"
    /\ UNCHANGED write_ret

\* "if not self.conn or not self.conn.open"
NotConnected(c) == c # "open"

\* execute_write: the connection test and the automatic connect
execute_write ==
    /\ client_pc = "execute_write"
    /\ IF NotConnected(conn)
       THEN \E ok \in BOOLEAN :
              IF ok
              THEN /\ conn' = "open"
                   /\ trace' = Append(trace, "connect")
                   /\ client_pc' = "cursor_execute"
                   /\ UNCHANGED <<todo, affected_rows, write_ret, helper_ret>>
              ELSE \* logger.error("Failed to reconnect"); return 0
                   /\ trace' = Append(trace, "connect failed")
                   /\ ExecuteWriteReturn(0)
                   /\ UNCHANGED conn
       ELSE /\ client_pc' = "cursor_execute"
            /\ UNCHANGED <<conn, todo, trace, affected_rows, write_ret, helper_ret>>
    /\ UNCHANGED helper
    /\ UNCHANGED tool

\* what a pymysql.Error leaves of the connection: a lost connection is closed
AfterError(lost) == IF lost THEN "closed" ELSE conn

\* affected_rows = cursor.execute(query, params)
cursor_execute ==
    /\ client_pc = "cursor_execute"
    /\ \/ \E n \in 0..MaxAffected :
            /\ affected_rows' = n
            /\ trace' = Append(trace, "executed")
            /\ client_pc' = "commit"
            /\ UNCHANGED conn
       \/ \E lost \in BOOLEAN :
            /\ conn' = AfterError(lost)
            /\ trace' = Append(trace, "statement error")
            /\ client_pc' = "rollback"
            /\ UNCHANGED affected_rows
    /\ UNCHANGED <<helper, todo, write_ret, helper_ret>>
    /\ UNCHANGED tool

\* self.conn.commit(); return affected_rows
commit ==
    /\ client_pc = "commit"
    /\ \/ /\ trace' = Append(trace, "commit")
          /\ ExecuteWriteReturn(affected_rows)
          /\ UNCHANGED conn
       \/ \E lost \in BOOLEAN :
            /\ conn' = AfterError(lost)
            /\ trace' = Append(trace, "commit error")
            /\ client_pc' = "rollback"
            /\ UNCHANGED <<todo, affected_rows, write_ret, helper_ret>>
    /\ UNCHANGED helper
    /\ UNCHANGED tool

\* except pymysql.Error: logger.error(...); self.conn.rollback(); return 0
\* (rollback on a closed connection raises; on an open one it may)
rollback ==
    /\ client_pc = "rollback"
    /\ \/ /\ conn = "open"
          /\ trace' = Append(trace, "rollback")
          /\ ExecuteWriteReturn(0)
          /\ UNCHANGED conn
       \/ /\ conn' = "closed"
          /\ trace' = Append(trace, "rollback error")
          /\ ExecuteWriteRaise
    /\ UNCHANGED helper
    /\ UNCHANGED tool

LibNext ==
    \/ client_connect
    \/ client_disconnect
    \/ client_call
    \/ execute_write
    \/ cursor_execute
    \/ commit
    \/ rollback

\* the client after __init__, no run of the tool
LibInit == Init /\ ~force

LibSpec == LibInit /\ [][LibNext]_vars

(***************************************************************************)
(* Properties.                                                             *)
(***************************************************************************)
Issued(stmt) == \E i \in 1..Len(issued) : issued[i] = stmt

\* main has left the try block
Exiting == pc \in {"cleanup", "done"}

\* inside the polling loop of _monitor_clone_progress
InPollingLoop == pc \in {"poll_progress", "poll_status"}

\* the "Clone Progress" bar exists: the loop and the statements after it
ProgressBarShown == pc \in {"poll_progress", "poll_status", "monitor_close"}

\* C1: over the progress samples the monitor reads, the position of the
\* progress bar never moves backward.
C1_PercentNonDecreasing ==
    [][ProgressBarShown /\ ProgressBarShown' => pbar_n' >= pbar_n]_vars

\* C2: a failed pre-flight check ends the run before the donor list is set,
\* before the watcher is launched and before the clone directive is issued;
\* when the failed check is the capability on source, nothing at all has been
\* executed on the target.
C2_PreflightAbortsBeforeDispatch ==
    abort # None =>
        /\ Exiting /\ exit_code = 1
        /\ ~Issued("SET clone_valid_donor_list")
        /\ ~Issued("watcher")
        /\ ~Issued("CLONE INSTANCE")
        /\ (abort = "source_plugin" => issued = <<>>)

C2_Witness ==
    /\ pc = "done"
    /\ abort = "source_plugin"
    /\ source_plugin = None
    /\ target_conn = "closed"

PluginCheckFailed ==
    \/ source_plugin \in {None, "DISABLED"}
    \/ target_plugin \in {None, "DISABLED"}

\* C3: with force set or not, a run in which check_plugin_status fails on
\* source or on target never enters execute_clone and exits non-zero.
C3_ForceNeverBypassesPlugin ==
    PluginCheckFailed =>
        /\ Exiting /\ exit_code = 1
        /\ ~Issued("SELECT datadir")
        /\ clone_exc = "unissued"
        /\ execute_clone_ret = None

C3_Witness ==
    /\ force
    /\ source_plugin = "ACTIVE"
    /\ target_plugin = "DISABLED"
    /\ pc = "done"

\* C4: blocking sessions on the target abort the run when force is not set
\* (non-zero exit, execute_clone not entered); with force set main goes on to
\* execute_clone however many they are.
C4_SessionsAbortUnlessForce ==
    /\ [](active_connections # {} /\ ~force =>
            /\ abort = "active_connections"
            /\ Exiting /\ exit_code = 1
            /\ ~Issued("SELECT datadir"))
    /\ [][pc = "check_active_connections" /\ raised' = None /\ force =>
            pc' = "execute_clone_datadir" /\ exit_code' = -1 /\ abort' = None]_vars

C4_Witness ==
    /\ force
    /\ Cardinality(active_connections) = MaxSessions
    /\ pc = "execute_clone_datadir"

\* C5: an OperationalError carrying "Lost connection" raised by the clone
\* directive is the expected disconnect: _monitor_clone_progress is entered and
\* execute_clone never returns False in that run.
C5_LostConnectionProceeds ==
    /\ [](clone_exc = LostConnection => execute_clone_ret # "False" /\ abort = None)
    /\ [][pc = "clone_stmt" /\ raised' = LostConnection => pc' = "monitor_sleep"]_vars

C5_Witness ==
    /\ clone_exc = LostConnection
    /\ pc = "reconnect"

\* C6: any other error raised by the clone directive fails the run at once: no
\* reconnection attempt, no polling, no validation, non-zero exit.
C6_OtherErrorFailsImmediately ==
    clone_exc \in {OperationalOther, MySQLErrorOther, OtherException} =>
        /\ Exiting /\ exit_code = 1
        /\ execute_clone_ret # "True"
        /\ attempts = 0
        /\ monitoring_conn = None
        /\ monitor_end = None
        /\ new_conn = None
        /\ validate_ret = None

C6_Witness ==
    /\ clone_exc = OperationalOther
    /\ pc = "done"
    /\ execute_clone_ret = "False"
    /\ exit_code = 1

\* C7: when every reconnection attempt has failed, execute_clone reports the
\* clone as failed and the run does not end as a success.
C7_ExhaustedReconnectIsFailure ==
    monitor_end = "could_not_reconnect" =>
        /\ execute_clone_ret = "False"
        /\ exit_code # 0
        /\ validate_ret # "True"

\* C8: a reconnection attempt that succeeds, the k-th with k <= max_retries,
\* ends the reconnect loop at once: no further attempt is made, and the
\* polling loop is entered.
C8_ReconnectSuccessEndsLoop ==
    /\ [](monitoring_conn = "open" => pc \notin {"reconnect", "reconnect_sleep"})
    /\ [](pc = "reconnect_end" /\ monitoring_conn = "open" =>
            attempts = retries + 1 /\ attempts <= max_retries)
    /\ [][pc = "reconnect_end" /\ monitoring_conn = "open" /\ raised' # Interrupt =>
            pc' = "poll_progress" /\ monitor_end' = None]_vars

C8_Witness ==
    /\ pc = "reconnect_end"
    /\ monitoring_conn = "open"
    /\ attempts = max_retries

\* C9: a poll cycle that reads a status row with state Completed and error
\* code 0 sets the bar to 100 and ends the loop as completed in that cycle,
\* whether the progress surface returned rows or not.
C9_CompletedZeroEndsPolling ==
    [][/\ pc = "poll_status"
       /\ raised' = None
       /\ status'.present /\ status'.state = "Completed" /\ status'.error_no = 0
       => completed' /\ pbar_n' = 100 /\ pc' = "monitor_close"]_vars

C9_Witness ==
    /\ pc = "monitor_close"
    /\ progress_rows = 0
    /\ status = [present |-> TRUE, state |-> "Completed", error_no |-> 0]
    /\ completed
    /\ pbar_n = 100

StatusFailed == status.present /\ status.state = "Failed"

\* C10: while the status surface keeps reporting Failed, the polling loop does
\* not go on for ever: it ends.
C10_FailedEndsPolling ==
    (InPollingLoop /\ StatusFailed) ~> ~(InPollingLoop /\ StatusFailed)

\* a failure message printed by _monitor_clone_progress
IsMonitorDiagnostic(d) == d \in {"failed or no progress data", "ERROR_MESSAGE"}

MonitorDiagnostics == SelectSeq(diagnostics, IsMonitorDiagnostic)

Printed(d) == \E i \in 1..Len(diagnostics) : diagnostics[i] = d

\* C11: once the polling loop has read a status row with state Failed, the
\* row's ERROR_MESSAGE has been printed in that run, whatever cycles came
\* before it.
C11_FailedMessageSurfaced ==
    ProgressBarShown /\ StatusFailed => Printed("ERROR_MESSAGE")

\* C12: one run of _monitor_clone_progress prints at most one failure message,
\* over all its cycles and over both branches.
C12_DiagnosticAtMostOnce == Len(MonitorDiagnostics) <= 1

C12_Witness ==
    /\ pc = "poll_progress"
    /\ error_reported
    /\ progress_rows > 0
    /\ StatusFailed
    /\ diagnostics = <<"failed or no progress data">>

\* C13: the watcher is best-effort: when ssh_connect or exec_command fails,
\* execute_clone still goes on to the clone directive and the run is not ended.
C13_WatcherBestEffort ==
    [][(pc = "ssh_connect" \/ pc = "exec_command") /\ raised' = OtherException =>
            exit_code' = -1 /\ pc' = "clone_stmt"]_vars

\* C14: the process exits with status 0 only when validate_clone ran and
\* returned True.
C14_ZeroExitOnlyAfterValidation == exit_code = 0 => validate_ret = "True"

\* an exception left every function and was taken by a handler of main
ExceptionReachedMain ==
    /\ Exiting
    /\ raised # None
    /\ abort = None
    /\ execute_clone_ret # "False"
    /\ validate_ret = None

\* C15: after a pre-flight failure, after execute_clone returned False and
\* after an exception that reached main (a KeyboardInterrupt included) the
\* exit status is non-zero.
C15_FailuresExitNonZero ==
    Exiting /\ (abort # None \/ execute_clone_ret = "False" \/ ExceptionReachedMain)
        => exit_code = 1

C15_Witness ==
    /\ pc = "done"
    /\ raised = Interrupt
    /\ monitoring_conn = "open"
    /\ execute_clone_ret = None
    /\ exit_code = 1

CountIssued(stmt) == Cardinality({i \in 1..Len(issued) : issued[i] = stmt})

\* C16: the clone directive is sent to the target at most once in a run,
\* whatever fails after it.
C16_DirectiveAtMostOnce == CountIssued("CLONE INSTANCE") <= 1

C16_Witness ==
    /\ pc = "done"
    /\ clone_exc = LostConnection
    /\ monitor_end = "error"
    /\ validate_ret = "False"
    /\ CountIssued("CLONE INSTANCE") = 1

\* C17: when the process exits, no connection or shell session opened during
\* the run is still open.
C17_AllClosedAtExit ==
    pc = "done" =>
        /\ source_conn # "open"
        /\ target_conn # "open"
        /\ ssh_client # "open"
        /\ monitoring_conn # "open"
        /\ new_conn # "open"

StatusCompletedZero ==
    status.present /\ status.state = "Completed" /\ status.error_no = 0

\* C18: validate_clone takes the success branch, and returns True, only for a
\* status row present with state Completed and error code 0; for every other
\* row read it returns False after printing the row's error message, or
\* "Unknown error" when there is no row.
C18_ValidateIffCompletedZero ==
    /\ (pc = "validate_info" \/ validate_ret = "True" => StatusCompletedZero)
    /\ (validate_ret = "False" /\ raised = None =>
            /\ ~StatusCompletedZero
            /\ diagnostics # <<>>
            /\ diagnostics[Len(diagnostics)] =
                  IF status.present THEN "validation failed: ERROR_MESSAGE"
                  ELSE "validation failed: Unknown error")

C18_Witness ==
    /\ pc = "done"
    /\ validate_ret = "False"
    /\ status = [present |-> TRUE, state |-> "Completed", error_no |-> 1]
    /\ Printed("validation failed: ERROR_MESSAGE")
    /\ exit_code = 0

\* every pre-flight check that queries a server has been evaluated
AllChecksEvaluated ==
    /\ source_plugin # "unread"
    /\ target_plugin # "unread"
    /\ Issued("SELECT PROCESSLIST")

\* C19: a run in which a pre-flight check failed has still evaluated every
\* other check.
C19_PreflightNoShortCircuit == pc = "done" /\ abort # None => AllChecksEvaluated

\* C20: a run whose monitoring ended as completed, with a no-rows cycle before
\* the Completed status or not, has printed no failure message.
C20_CompletedWithoutFailureReport ==
    monitor_end = "completed" => MonitorDiagnostics = <<>>

Traced(ev) == \E i \in 1..Len(trace) : trace[i] = ev

\* a method documented "True if successful, False otherwise" has returned
HelperReturned ==
    client_pc = "idle" /\ helper \in BoolHelpers /\ helper_ret \in {"True", "False"}

\* C21: a method documented "True if successful, False otherwise" returns
\* False when a statement it passed to execute_write failed with a database
\* error.
C21_HelperFalseOnStatementError ==
    HelperReturned /\ Traced("statement error") => helper_ret = "False"

\* the statements of execute_clone sent to the target host, in order
IsExecuteCloneStep(x) ==
    x \in {"SELECT datadir", "SET clone_valid_donor_list", "watcher", "CLONE INSTANCE"}

ExecuteCloneOrder ==
    <<"SELECT datadir", "SET clone_valid_donor_list", "watcher", "CLONE INSTANCE">>

IsPrefix(a, b) == Len(a) <= Len(b) /\ \A i \in 1..Len(a) : a[i] = b[i]

\* C22: execute_clone reads the data directory, sets the donor list, launches
\* the watcher and issues the clone directive in that order, and where the
\* directive has been issued the donor list is the source endpoint, whatever
\* it was before.
C22_DispatchOrder ==
    /\ IsPrefix(SelectSeq(issued, IsExecuteCloneStep), ExecuteCloneOrder)
    /\ Issued("CLONE INSTANCE") =>
          clone_valid_donor_list = "source_host:source_port"

C22_Witness ==
    /\ pc = "monitor_sleep"
    /\ SelectSeq(issued, IsExecuteCloneStep) = ExecuteCloneOrder
    /\ clone_valid_donor_list = "source_host:source_port"
    /\ ssh_client = "open"

LastIssued == IF issued = <<>> THEN None ELSE issued[Len(issued)]

\* the data-directory read or the donor SET has just raised a pymysql error
PrepareFailed ==
    /\ LastIssued \in {"SELECT datadir", "SET clone_valid_donor_list"}
    /\ raised \in {LostConnection, OperationalOther, MySQLErrorOther}

\* C23: a pymysql error in the data-directory read or in the donor SET, a
\* lost connection included, ends the run: execute_clone returns False, the
\* exit status is non-zero, no watcher and no clone directive.
C23_PrepareErrorsFatal ==
    PrepareFailed =>
        /\ Exiting /\ exit_code = 1
        /\ execute_clone_ret = "False"
        /\ ssh_client = None
        /\ ~Issued("watcher")
        /\ ~Issued("CLONE INSTANCE")
        /\ clone_exc = "unissued"

C23_Witness ==
    /\ pc = "done"
    /\ raised = LostConnection
    /\ LastIssued = "SET clone_valid_donor_list"
    /\ execute_clone_ret = "False"
    /\ exit_code = 1

InReconnectPhase == pc \in {"monitor_sleep", "reconnect", "reconnect_sleep"}

\* C24: the reconnect phase sleeps before its first attempt, makes between 0
\* and max_retries attempts, and ends, by a connection or by exhaustion.
C24_ReconnectBounded ==
    /\ [](attempts \in 0..max_retries)
    /\ [](pc = "monitor_sleep" => attempts = 0)
    /\ (InReconnectPhase ~> ~InReconnectPhase)

C24_Witness ==
    /\ pc = "reconnect_end"
    /\ monitoring_conn = None
    /\ attempts = max_retries
    /\ retries = max_retries

\* C25: a poll cycle whose rows sum to a nonzero estimate sets the percentage
\* to min(100, floor(100 * completed / estimated)); a cycle whose estimate is
\* zero leaves it as it was.
C25_PercentIsFloor ==
    [][pc = "poll_progress" /\ raised' = None /\ progress_rows' > 0 =>
            pbar_n' = IF total_work' > 0
                      THEN Min(100, (100 * completed_work') \div total_work')
                      ELSE pbar_n]_vars

\* C26: the position of the "Clone Progress" bar is within 0..100 in every
\* state, also for samples whose completed work exceeds the estimate.
C26_PercentInRange == pbar_n \in 0..100

C26_Witness ==
    /\ pc = "poll_status"
    /\ total_work > 0
    /\ completed_work > total_work
    /\ pbar_n = 100

\* C27: in a cycle without progress rows, a status row present with error
\* code 0 ends the loop as completed; no status row keeps the loop polling.
C27_NoRowsBranch ==
    [][pc = "poll_status" /\ progress_rows = 0 /\ raised' = None =>
            /\ (status'.present /\ status'.error_no = 0 =>
                    completed' /\ pc' = "monitor_close")
            /\ (~status'.present => ~completed' /\ pc' = "poll_progress")]_vars

C27_Witness ==
    /\ pc = "poll_progress"
    /\ progress_rows = 0
    /\ status = NoStatus
    /\ error_reported
    /\ ~completed

\* C28: in every cycle, with progress rows or without, a status row whose
\* state is Completed sets the bar to 100 and ends the loop as completed,
\* whatever its error code.
C28_CompletedStateEndsPolling ==
    [][pc = "poll_status" /\ raised' = None
       /\ status'.present /\ status'.state = "Completed"
       => completed' /\ pbar_n' = 100 /\ pc' = "monitor_close"]_vars

\* C29: where the polling loop ended as completed on a status row,
\* validate_clone reading the same row takes its success branch.
C29_MonitorAgreesWithValidator ==
    pc = "monitor_close" /\ completed => ValidateOk(status)

\* C30: an Exception raised by a query of the polling loop ends the monitor
\* and goes no further: execute_clone returns True and validate_clone is run.
C30_PollingErrorContained ==
    [][InPollingLoop /\ raised' \in {OperationalOther, MySQLErrorOther, OtherException} =>
            /\ pc' = "validate_connect"
            /\ execute_clone_ret' = "True"
            /\ monitor_end' = "error"
            /\ exit_code' = -1]_vars

C30_Witness ==
    /\ pc = "validate_connect"
    /\ monitor_end = "error"
    /\ raised = OperationalOther
    /\ monitoring_conn = "open"
    /\ execute_clone_ret = "True"

\* a session the claim counts as blocking: not the orchestrator's own, not a
\* system or background one
Blocking(s) == ~s.own /\ s.COMMAND \notin {"Daemon", "Sleep"}

\* C31: check_active_connections finds blocking sessions exactly when the
\* PROCESSLIST holds a session that is neither the orchestrator's own nor a
\* Daemon or Sleep one, a session of the orchestrator's database user included.
C31_BlockingSessionsExact ==
    processlist # {} =>
        (active_connections # {} <=> \E s \in processlist : Blocking(s))

\* C32: a KeyboardInterrupt raised at any statement ends the run: main goes to
\* cleanup with a non-zero exit status.
C32_InterruptTerminates ==
    [][~Exiting /\ raised' = Interrupt => pc' = "cleanup" /\ exit_code' = 1]_vars

\* execute_write was called by the caller itself and the call is over
DirectCallOver == client_pc = "idle" /\ helper = "execute_write" /\ trace # <<>>

\* C33: execute_write calls commit exactly when the statement succeeded, and
\* a commit that went through returns the affected-row count; after a
\* statement error it has rolled back, not committed and returned 0; after a
\* failed automatic connect it has returned 0 without executing the statement.
C33_ExecuteWriteContract ==
    /\ [](DirectCallOver =>
            /\ Traced("commit") => Traced("executed")
            /\ Traced("executed") => Traced("commit") \/ Traced("commit error")
            /\ Traced("statement error") =>
                  write_ret = 0 /\ Traced("rollback") /\ ~Traced("commit")
            /\ Traced("connect failed") =>
                  write_ret = 0 /\ ~Traced("executed") /\ ~Traced("statement error"))
    /\ [][client_pc = "commit" /\ helper = "execute_write" /\ client_pc' = "idle" =>
            write_ret' = affected_rows]_vars

==========================================================================
